---- MODULE Spec2Model ----
(***************************************************************************)
(* A model of cbor.py (Python 2): the encoder dumps, the decoder loads /    *)
(* _loads, the header routines and the tag interpreter.                     *)
(*                                                                          *)
(* Python integers are unbounded, and the codec's interesting boundaries    *)
(* lie at 2^32 and 2^64, beyond the model checker's machine integers.  A    *)
(* Python int is therefore a record [kind, neg, mag] whose magnitude mag    *)
(* is the sequence of its hexadecimal digits, least significant first,      *)
(* without most-significant zeros (zero is the empty sequence).  Bytes of   *)
(* a buffer are naturals in 0..255; a str is a sequence of bytes, a         *)
(* unicode a sequence of code points.                                       *)
(***************************************************************************)
EXTENDS Integers, Sequences, FiniteSets, TLC

(***************************************************************************)
(* Module constants of cbor.py.                                             *)
(***************************************************************************)
CBOR_TYPE_MASK == 224
CBOR_INFO_BITS == 31

CBOR_UINT == 0
CBOR_NEGINT == 32
CBOR_BYTES == 64
CBOR_TEXT == 96
CBOR_ARRAY == 128
CBOR_MAP == 160
CBOR_TAG == 192
CBOR_7 == 224

CBOR_UINT8_FOLLOWS == 24
CBOR_UINT16_FOLLOWS == 25
CBOR_UINT32_FOLLOWS == 26
CBOR_UINT64_FOLLOWS == 27
CBOR_VAR_FOLLOWS == 31

CBOR_BREAK == 255

CBOR_TAG_DATE_STRING == 0
CBOR_TAG_DATE_ARRAY == 1
CBOR_TAG_BIGNUM == 2
CBOR_TAG_NEGBIGNUM == 3
CBOR_TAG_REGEX == 35

_MAX_DEPTH == 100

(***************************************************************************)
(* Bitwise operators on small naturals (header bytes).                      *)
(***************************************************************************)
RECURSIVE BitAnd(_, _)
BitAnd(a, b) ==
  IF a = 0 \/ b = 0 THEN 0
  ELSE (a % 2) * (b % 2) + 2 * BitAnd(a \div 2, b \div 2)

RECURSIVE BitOr(_, _)
BitOr(a, b) ==
  IF a = 0 THEN b
  ELSE IF b = 0 THEN a
  ELSE (IF a % 2 = 1 \/ b % 2 = 1 THEN 1 ELSE 0) + 2 * BitOr(a \div 2, b \div 2)

CBOR_FALSE == BitOr(CBOR_7, 20)
CBOR_TRUE == BitOr(CBOR_7, 21)
CBOR_NULL == BitOr(CBOR_7, 22)
\* a wrong simple-value number for 'undefined'
CBOR_UNDEFINED_as_24 == BitOr(CBOR_7, 24)
CBOR_UNDEFINED == BitOr(CBOR_7, 23)
CBOR_FLOAT16 == BitOr(CBOR_7, 25)
CBOR_FLOAT32 == BitOr(CBOR_7, 26)
CBOR_FLOAT64 == BitOr(CBOR_7, 27)

(***************************************************************************)
(* Python's unbounded integers: magnitudes as hexadecimal digit sequences,  *)
(* least significant digit first.                                           *)
(***************************************************************************)
RECURSIVE Norm(_)
Norm(m) ==
  IF m = <<>> THEN <<>>
  ELSE IF m[Len(m)] = 0 THEN Norm(SubSeq(m, 1, Len(m) - 1))
  ELSE m

RECURSIVE NatMag(_)
NatMag(n) == IF n = 0 THEN <<>> ELSE <<n % 16>> \o NatMag(n \div 16)

\* the machine value of a magnitude below 2^28
RECURSIVE MagNat(_)
MagNat(m) == IF m = <<>> THEN 0 ELSE Head(m) + 16 * MagNat(Tail(m))

IsSmall(m) == Len(m) <= 7

\* a < b, digits compared from the most significant one
RECURSIVE MagLessFrom(_, _, _)
MagLessFrom(a, b, i) ==
  IF i = 0 THEN FALSE
  ELSE IF a[i] # b[i] THEN a[i] < b[i]
  ELSE MagLessFrom(a, b, i - 1)

MagLess(a, b) ==
  IF Len(a) # Len(b) THEN Len(a) < Len(b) ELSE MagLessFrom(a, b, Len(a))

MagLE(a, b) == ~MagLess(b, a)

RECURSIVE AddMagC(_, _, _)
AddMagC(a, b, carry) ==
  IF a = <<>> /\ b = <<>> THEN (IF carry = 0 THEN <<>> ELSE <<carry>>)
  ELSE LET x == (IF a = <<>> THEN 0 ELSE Head(a))
                + (IF b = <<>> THEN 0 ELSE Head(b)) + carry
       IN <<x % 16>> \o AddMagC(IF a = <<>> THEN <<>> ELSE Tail(a),
                                IF b = <<>> THEN <<>> ELSE Tail(b),
                                x \div 16)

AddMag(a, b) == AddMagC(a, b, 0)

\* m - 1 for m > 0
RECURSIVE DecMag(_)
DecMag(m) ==
  IF Head(m) > 0 THEN Norm(<<Head(m) - 1>> \o Tail(m))
  ELSE <<15>> \o DecMag(Tail(m))

\* val & 0x0ff
LowByte(m) ==
  (IF Len(m) >= 1 THEN m[1] ELSE 0) + 16 * (IF Len(m) >= 2 THEN m[2] ELSE 0)

\* val >> 8
Shr8(m) == IF Len(m) <= 2 THEN <<>> ELSE SubSeq(m, 3, Len(m))

\* (out << 8) | b for a byte b
Shl8Or(m, b) == Norm(<<(b % 16), (b \div 16)>> \o m)

X0ff == <<15, 15>>
X0ffff == [i \in 1..4 |-> 15]
X0ffffffff == [i \in 1..8 |-> 15]
X0ffffffffffffffff == [i \in 1..16 |-> 15]

(***************************************************************************)
(* Python objects.                                                          *)
(***************************************************************************)
PyNone == [kind |-> "NoneType"]
PyBool(b) == [kind |-> "bool", b |-> b]
PyInt(neg, mag) == [kind |-> "int", neg |-> neg, mag |-> mag]
PyStr(s) == [kind |-> "str", s |-> s]
PyUnicode(u) == [kind |-> "unicode", u |-> u]
PyList(items) == [kind |-> "list", items |-> items]
PyDict(pairs) == [kind |-> "dict", pairs |-> pairs]
PyFloat(fmt, bits) == [kind |-> "float", fmt |-> fmt, bits |-> bits]
Tag(tag, value) == [kind |-> "Tag", tag |-> tag, value |-> value]
PyDatetime(ts) == [kind |-> "datetime", ts |-> ts]
PyRegex(pattern) == [kind |-> "regex", pattern |-> pattern]

\* -1 - val
MinusOneMinus(val) ==
  IF val.neg THEN PyInt(FALSE, DecMag(val.mag))
  ELSE PyInt(TRUE, AddMag(val.mag, <<1>>))

(***************************************************************************)
(* struct.pack / struct.unpack_from of big-endian unsigned fields.          *)
(***************************************************************************)
\* the width-byte big-endian field of a magnitude that fits
RECURSIVE pack_uint(_, _)
pack_uint(m, width) ==
  IF width = 0 THEN <<>>
  ELSE pack_uint(Shr8(m), width - 1) \o <<LowByte(m)>>

\* the magnitude of a big-endian byte field
RECURSIVE unpack_uint(_)
unpack_uint(bs) ==
  IF bs = <<>> THEN <<>>
  ELSE Shl8Or(unpack_uint(SubSeq(bs, 1, Len(bs) - 1)), bs[Len(bs)])

(***************************************************************************)
(* unicode.encode('utf8') and str.decode('utf8').                           *)
(***************************************************************************)
utf8_encode_cp(c) ==
  IF c < 128 THEN <<c>>
  ELSE IF c < 2048 THEN <<192 + (c \div 64), 128 + (c % 64)>>
  ELSE IF c < 65536
    THEN <<224 + (c \div 4096), 128 + ((c \div 64) % 64), 128 + (c % 64)>>
  ELSE <<240 + (c \div 262144), 128 + ((c \div 4096) % 64),
         128 + ((c \div 64) % 64), 128 + (c % 64)>>

\* the code points' encodings, concatenated in order
RECURSIVE utf8_encode(_)
utf8_encode(u) ==
  IF Len(u) = 0 THEN <<>>
  ELSE IF Len(u) = 1 THEN utf8_encode_cp(u[1])
  ELSE LET half == Len(u) \div 2
       IN utf8_encode(SubSeq(u, 1, half))
            \o utf8_encode(SubSeq(u, half + 1, Len(u)))

IsCont(bs, i) == i <= Len(bs) /\ bs[i] >= 128 /\ bs[i] <= 191

\* the length of the well-formed sequence that starts at bs[i], or 0
utf8_len(bs, i) ==
  LET b == bs[i]
  IN IF b < 128 THEN 1
     ELSE IF b >= 194 /\ b <= 223 /\ IsCont(bs, i + 1) THEN 2
     ELSE IF b >= 224 /\ b <= 239 /\ IsCont(bs, i + 1) /\ IsCont(bs, i + 2)
             /\ (b = 224 => bs[i + 1] >= 160) THEN 3
     ELSE IF b >= 240 /\ b <= 244 /\ IsCont(bs, i + 1) /\ IsCont(bs, i + 2)
             /\ IsCont(bs, i + 3) /\ (b = 240 => bs[i + 1] >= 144)
             /\ (b = 244 => bs[i + 1] <= 143) THEN 4
     ELSE 0

\* the code point of the well-formed sequence of n bytes at bs[i]
utf8_cp(bs, i, n) ==
  IF n = 1 THEN bs[i]
  ELSE IF n = 2 THEN (bs[i] - 192) * 64 + (bs[i + 1] - 128)
  ELSE IF n = 3
    THEN (bs[i] - 224) * 4096 + (bs[i + 1] - 128) * 64 + (bs[i + 2] - 128)
  ELSE (bs[i] - 240) * 262144 + (bs[i + 1] - 128) * 4096
       + (bs[i + 2] - 128) * 64 + (bs[i + 3] - 128)

\* [err, u]: the code points of a UTF-8 byte string, or UnicodeDecodeError.
\* UTF-8 is self-synchronising: a character starts at every byte that is
\* not a continuation byte, and the string is well formed when each
\* character is and is followed by the start of the next.
utf8_decode(bs) ==
  LET IsStart(i) == ~IsCont(bs, i)
      starts == SelectSeq([i \in 1..Len(bs) |-> i], IsStart)
      wellformed ==
        /\ Len(bs) > 0 => IsStart(1)
        /\ \A i \in 1..Len(bs) :
             IsStart(i) =>
               /\ utf8_len(bs, i) > 0
               /\ i + utf8_len(bs, i) <= Len(bs)
                    => IsStart(i + utf8_len(bs, i))
  IN IF ~wellformed THEN [err |-> "UnicodeDecodeError", u |-> <<>>]
     ELSE [err |-> "",
           u |-> [k \in 1..Len(starts) |->
                    utf8_cp(bs, starts[k], utf8_len(bs, starts[k]))]]

(***************************************************************************)
(* The encoder.  An outcome is [err, bytes]: err is "" on return and the    *)
(* exception otherwise.                                                     *)
(***************************************************************************)
Bytes(bs) == [err |-> "", bytes |-> bs]
Raise(e) == [err |-> e, bytes |-> <<>>]

RECURSIVE _dumps_bignum_loop(_, _)
_dumps_bignum_loop(val, out) ==
  IF val = <<>> THEN out
  ELSE _dumps_bignum_loop(Shr8(val), <<LowByte(val)>> \o out)

\* out.append in place of out.insert(0, ...): the bytes come out reversed
RECURSIVE _dumps_bignum_appending_loop(_, _)
_dumps_bignum_appending_loop(val, out) ==
  IF val = <<>> THEN out
  ELSE _dumps_bignum_appending_loop(Shr8(val), out \o <<LowByte(val)>>)

_dumps_bignum_appending(val) == _dumps_bignum_appending_loop(val, <<>>)

_dumps_bignum_to_bytearray(val) == _dumps_bignum_loop(val, <<>>)

RECURSIVE _encode_type_num(_, _)
_encode_type_num(cbor_type, val) ==
  IF MagLE(val, NatMag(23)) THEN Bytes(<<BitOr(cbor_type, MagNat(val))>>)
  ELSE IF MagLE(val, X0ff)
    THEN Bytes(<<BitOr(cbor_type, CBOR_UINT8_FOLLOWS)>> \o pack_uint(val, 1))
  ELSE IF MagLE(val, X0ffff)
    THEN Bytes(<<BitOr(cbor_type, CBOR_UINT16_FOLLOWS)>> \o pack_uint(val, 2))
  ELSE IF MagLE(val, X0ffffffff)
    THEN Bytes(<<BitOr(cbor_type, CBOR_UINT32_FOLLOWS)>> \o pack_uint(val, 4))
  ELSE IF MagLE(val, X0ffffffffffffffff)
    THEN Bytes(<<BitOr(cbor_type, CBOR_UINT64_FOLLOWS)>> \o pack_uint(val, 8))
  ELSE IF cbor_type # CBOR_NEGINT THEN Raise("Exception")
  ELSE LET outb == _dumps_bignum_to_bytearray(val)
       IN Bytes(<<BitOr(CBOR_TAG, CBOR_TAG_NEGBIGNUM)>>
                \o _encode_type_num(CBOR_BYTES, NatMag(Len(outb))).bytes
                \o outb)

\* val < 0x0ff in place of val <= 0x0ff: 255 takes the 16-bit form
dumps_int_strict(val) ==
  IF ~val.neg
  THEN IF MagLE(val.mag, NatMag(23)) THEN Bytes(<<MagNat(val.mag)>>)
       ELSE IF MagLess(val.mag, X0ff)
         THEN Bytes(<<CBOR_UINT8_FOLLOWS>> \o pack_uint(val.mag, 1))
       ELSE IF MagLE(val.mag, X0ffff)
         THEN Bytes(<<CBOR_UINT16_FOLLOWS>> \o pack_uint(val.mag, 2))
       ELSE IF MagLE(val.mag, X0ffffffff)
         THEN Bytes(<<CBOR_UINT32_FOLLOWS>> \o pack_uint(val.mag, 4))
       ELSE IF MagLE(val.mag, X0ffffffffffffffff)
         THEN Bytes(<<CBOR_UINT64_FOLLOWS>> \o pack_uint(val.mag, 8))
       ELSE LET outb == _dumps_bignum_to_bytearray(val.mag)
            IN Bytes(<<BitOr(CBOR_TAG, CBOR_TAG_BIGNUM)>>
                     \o _encode_type_num(CBOR_BYTES, NatMag(Len(outb))).bytes
                     \o outb)
  ELSE _encode_type_num(CBOR_NEGINT, MinusOneMinus(val).mag)

dumps_int(val) ==
  IF ~val.neg
  THEN IF MagLE(val.mag, NatMag(23)) THEN Bytes(<<MagNat(val.mag)>>)
       ELSE IF MagLE(val.mag, X0ff)
         THEN Bytes(<<CBOR_UINT8_FOLLOWS>> \o pack_uint(val.mag, 1))
       ELSE IF MagLE(val.mag, X0ffff)
         THEN Bytes(<<CBOR_UINT16_FOLLOWS>> \o pack_uint(val.mag, 2))
       ELSE IF MagLE(val.mag, X0ffffffff)
         THEN Bytes(<<CBOR_UINT32_FOLLOWS>> \o pack_uint(val.mag, 4))
       ELSE IF MagLE(val.mag, X0ffffffffffffffff)
         THEN Bytes(<<CBOR_UINT64_FOLLOWS>> \o pack_uint(val.mag, 8))
       ELSE LET outb == _dumps_bignum_to_bytearray(val.mag)
            IN Bytes(<<BitOr(CBOR_TAG, CBOR_TAG_BIGNUM)>>
                     \o _encode_type_num(CBOR_BYTES, NatMag(Len(outb))).bytes
                     \o outb)
  ELSE _encode_type_num(CBOR_NEGINT, MinusOneMinus(val).mag)

dumps_float(val) == Bytes(<<CBOR_FLOAT64>> \o val.bits)

\* dumps calls dumps_string(ob): is_text and is_bytes keep their default None,
\* so a unicode is a text string and any other string a byte string
dumps_string(val) ==
  IF val.kind = "unicode"
  THEN LET raw == utf8_encode(val.u)
       IN Bytes(_encode_type_num(CBOR_TEXT, NatMag(Len(raw))).bytes \o raw)
  ELSE Bytes(_encode_type_num(CBOR_BYTES, NatMag(Len(val.s))).bytes \o val.s)

dumps_bool(b) == IF b THEN Bytes(<<CBOR_TRUE>>) ELSE Bytes(<<CBOR_FALSE>>)

RECURSIVE dumps(_)
RECURSIVE dumps_parts(_, _)
RECURSIVE dumps_pairs(_, _)

\* [dumps(x) for x in arr], joined; the first exception ends it
dumps_parts(arr, i) ==
  IF i > Len(arr) THEN Bytes(<<>>)
  ELSE LET x == dumps(arr[i])
           rest == dumps_parts(arr, i + 1)
       IN IF x.err # "" THEN x
          ELSE IF rest.err # "" THEN rest
          ELSE Bytes(x.bytes \o rest.bytes)

dumps_array(arr) ==
  LET head == _encode_type_num(CBOR_ARRAY, NatMag(Len(arr)))
      parts == dumps_parts(arr, 1)
  IN IF parts.err # "" THEN parts ELSE Bytes(head.bytes \o parts.bytes)

\* for k, v in d.iteritems(): dumps(k), dumps(v)
dumps_pairs(d, i) ==
  IF i > Len(d) THEN Bytes(<<>>)
  ELSE LET k == dumps(d[i].k)
           v == dumps(d[i].v)
           rest == dumps_pairs(d, i + 1)
       IN IF k.err # "" THEN k
          ELSE IF v.err # "" THEN v
          ELSE IF rest.err # "" THEN rest
          ELSE Bytes(k.bytes \o v.bytes \o rest.bytes)

dumps_dict(d) ==
  LET head == _encode_type_num(CBOR_MAP, NatMag(Len(d)))
      parts == dumps_pairs(d, 1)
  IN IF parts.err # "" THEN parts ELSE Bytes(head.bytes \o parts.bytes)

dumps(ob) ==
  IF ob.kind = "NoneType" THEN Bytes(<<CBOR_NULL>>)
  ELSE IF ob.kind = "bool" THEN dumps_bool(ob.b)
  ELSE IF ob.kind \in {"str", "unicode"} THEN dumps_string(ob)
  ELSE IF ob.kind = "list" THEN dumps_array(ob.items)
  ELSE IF ob.kind = "dict" THEN dumps_dict(ob.pairs)
  ELSE IF ob.kind = "float" THEN dumps_float(ob)
  ELSE IF ob.kind = "int" THEN dumps_int(ob)
  ELSE Raise("Exception")

(***************************************************************************)
(* The state: the object given to dumps and its outcome, the buffer given   *)
(* to the decoder and its outcome, and the decoder's call stack.  The       *)
(* interpreter executes assert statements (it does not run under -O).       *)
(***************************************************************************)
VARIABLES ob, enc, data, out, pc, stack, cur, entry

vars == <<ob, enc, data, out, pc, stack, cur, entry>>

(***************************************************************************)
(* Python's ==, as dict lookup and the comparisons of the decoder use it.   *)
(* bool is an int; a str equals a unicode of the same ASCII characters;     *)
(* values of unrelated types are unequal.                                   *)
(***************************************************************************)
IsNumber(a) == a.kind \in {"int", "bool"}

AsInt(a) ==
  IF a.kind = "int" THEN a
  ELSE PyInt(FALSE, IF a.b THEN <<1>> ELSE <<>>)

Chars(a) == IF a.kind = "str" THEN a.s ELSE a.u

PyEq(a, b) ==
  IF IsNumber(a) /\ IsNumber(b) THEN AsInt(a) = AsInt(b)
  ELSE IF a.kind \in {"str", "unicode"} /\ b.kind \in {"str", "unicode"}
    THEN /\ Chars(a) = Chars(b)
         /\ (a.kind # b.kind => \A i \in 1..Len(Chars(a)) : Chars(a)[i] < 128)
  ELSE a.kind = b.kind /\ a = b

(***************************************************************************)
(* Indexing and slicing of the input buffer by Python integers.             *)
(***************************************************************************)
\* data[pos] does not raise IndexError
InRange(buf, pos) == IsSmall(pos) /\ MagNat(pos) < Len(buf)

\* data[pos], a byte
ByteAt(buf, pos) == buf[MagNat(pos) + 1]

\* min(pos, len(data)), as slicing clamps its bounds
Clamp(buf, pos) == IF InRange(buf, pos) THEN MagNat(pos) ELSE Len(buf)

\* data[lo:hi]
Slice(buf, lo, hi) == SubSeq(buf, Clamp(buf, lo) + 1, Clamp(buf, hi))

\* struct.unpack_from of a width-byte field at pos: [err, field]
unpack_from(buf, pos, width) ==
  IF IsSmall(pos) /\ MagNat(pos) + width <= Len(buf)
  THEN [err |-> "", field |-> SubSeq(buf, MagNat(pos) + 1, MagNat(pos) + width)]
  ELSE [err |-> "struct.error", field |-> <<>>]

(***************************************************************************)
(* The decoder.  An outcome is [err, val, n]: on return err is "", val the  *)
(* object and n the bytes read (a magnitude); otherwise err names the       *)
(* exception.                                                               *)
(***************************************************************************)
Ret(val, n) == [err |-> "", val |-> val, n |-> n]
Fail(e) == [err |-> e, val |-> PyNone, n |-> <<>>]

RecursionLimitError == "Exception: hit CBOR loads recursion depth limit"

\* [err, tag, tag_aux, aux, bytes_read]; tb is the object the caller read
Header(tag, tag_aux, aux, bytes_read) ==
  [err |-> "", tag |-> tag, tag_aux |-> tag_aux, aux |-> aux,
   bytes_read |-> bytes_read]
HeaderFail(e) ==
  [err |-> e, tag |-> 0, tag_aux |-> 0, aux |-> PyNone, bytes_read |-> <<>>]

_tag_aux_follows(buf, offset, tag, tag_aux, width) ==
  LET f == unpack_from(buf, AddMag(offset, <<1>>), width)
  IN IF f.err # "" THEN HeaderFail(f.err)
     ELSE Header(tag, tag_aux, PyInt(FALSE, unpack_uint(f.field)),
                 NatMag(1 + width))

_tag_aux(buf, offset, tb) ==
  IF tb.kind # "int" THEN HeaderFail("TypeError")  \* str & int
  ELSE
    LET tag == BitAnd(MagNat(tb.mag), CBOR_TYPE_MASK)
        tag_aux == BitAnd(MagNat(tb.mag), CBOR_INFO_BITS)
    IN IF tag_aux <= 23
         THEN Header(tag, tag_aux, PyInt(FALSE, NatMag(tag_aux)), <<1>>)
       ELSE IF tag_aux = CBOR_UINT8_FOLLOWS
         THEN _tag_aux_follows(buf, offset, tag, tag_aux, 1)
       ELSE IF tag_aux = CBOR_UINT16_FOLLOWS
         THEN _tag_aux_follows(buf, offset, tag, tag_aux, 2)
       ELSE IF tag_aux = CBOR_UINT32_FOLLOWS
         THEN _tag_aux_follows(buf, offset, tag, tag_aux, 4)
       ELSE IF tag_aux = CBOR_UINT64_FOLLOWS
         THEN _tag_aux_follows(buf, offset, tag, tag_aux, 8)
       ELSE IF tag_aux # CBOR_VAR_FOLLOWS
         THEN HeaderFail("AssertionError")
       ELSE Header(tag, tag_aux, PyNone, <<1>>)

RECURSIVE loads_bytes_loop(_, _, _, _, _)
loads_bytes_loop(buf, offset, btag, chunklist, total_bytes_read) ==
  LET pos == AddMag(offset, total_bytes_read)
  IN IF ~InRange(buf, pos) THEN Fail("IndexError")
     ELSE
       LET tb == PyStr(<<ByteAt(buf, pos)>>)   \* data[i] of a str is a str
       IN IF PyEq(tb, PyInt(FALSE, NatMag(CBOR_BREAK)))
          THEN Ret(PyStr(chunklist), AddMag(total_bytes_read, <<1>>))
          ELSE
            LET h == _tag_aux(buf, pos, tb)
            IN IF h.err # "" THEN Fail(h.err)
               ELSE IF h.tag # btag THEN Fail("AssertionError")
               ELSE IF h.aux = PyNone THEN Fail("TypeError")  \* int + None
               ELSE
                 LET start == AddMag(pos, h.bytes_read)
                     chunk == Slice(buf, start, AddMag(start, h.aux.mag))
                 IN loads_bytes_loop(buf, offset, btag, chunklist \o chunk,
                      AddMag(total_bytes_read,
                             AddMag(h.bytes_read, h.aux.mag)))

loads_bytes(buf, offset, aux, btag) ==
  IF aux # PyNone
  THEN Ret(PyStr(Slice(buf, offset, AddMag(offset, aux.mag))), aux.mag)
  ELSE loads_bytes_loop(buf, offset, btag, <<>>, <<>>)

\* out | n for magnitudes
RECURSIVE MagOr(_, _)
MagOr(a, b) ==
  IF a = <<>> THEN b
  ELSE IF b = <<>> THEN a
  ELSE <<BitOr(Head(a), Head(b))>> \o MagOr(Tail(a), Tail(b))

\* [err, ords]: ord(ch) for ch in bs
RECURSIVE OrdAll(_)
OrdAll(elems) ==
  IF elems = <<>> THEN [err |-> "", ords |-> <<>>]
  ELSE LET ch == Head(elems)
           rest == OrdAll(Tail(elems))
       IN IF ~(ch.kind \in {"str", "unicode"} /\ Len(Chars(ch)) = 1)
            THEN [err |-> "TypeError", ords |-> <<>>]
          ELSE IF rest.err # "" THEN rest
          ELSE [err |-> "", ords |-> <<Chars(ch)[1]>> \o rest.ords]

Iterate(bs) ==
  IF bs.kind \in {"str", "unicode"}
    THEN [err |-> "", ords |-> Chars(bs)]
  ELSE IF bs.kind = "list" THEN OrdAll(bs.items)
  ELSE IF bs.kind = "dict"
    THEN OrdAll([i \in 1..Len(bs.pairs) |-> bs.pairs[i].k])
  ELSE [err |-> "TypeError", ords |-> <<>>]

RECURSIVE _bytes_to_biguint_loop(_, _)
_bytes_to_biguint_loop(ords, acc) ==
  IF ords = <<>> THEN acc
  ELSE _bytes_to_biguint_loop(Tail(ords),
         Norm(MagOr(IF acc = <<>> THEN <<>> ELSE <<0, 0>> \o acc,
                    NatMag(Head(ords)))))

\* [err, val]
_bytes_to_biguint(bs) ==
  LET it == Iterate(bs)
  IN IF it.err # "" THEN [err |-> it.err, val |-> PyNone]
     ELSE [err |-> "",
           val |-> PyInt(FALSE, _bytes_to_biguint_loop(it.ords, <<>>))]

\* the range of datetime.utcfromtimestamp: years 1 to 9999
TimestampMin == <<0, 0, 7, 15, 1, 9, 7, 7, 14>>
TimestampMax == <<15, 7, 1, 4, 4, 15, 15, 15, 10, 3>>

utcfromtimestamp(t) ==
  IF t.kind = "float" THEN [err |-> "", val |-> PyDatetime(t)]
  ELSE IF ~IsNumber(t) THEN [err |-> "TypeError", val |-> PyNone]
  ELSE IF MagLE(AsInt(t).mag, IF AsInt(t).neg THEN TimestampMin ELSE TimestampMax)
    THEN [err |-> "", val |-> PyDatetime(AsInt(t))]
  ELSE [err |-> "ValueError", val |-> PyNone]

\* re.compile of a pattern without regular-expression syntax errors
re_compile(pattern) ==
  IF pattern.kind \in {"str", "unicode"}
    THEN [err |-> "", val |-> PyRegex(pattern)]
  ELSE IF pattern.kind = "regex" THEN [err |-> "", val |-> pattern]
  ELSE [err |-> "TypeError", val |-> PyNone]

IsTag(aux, number) == aux.kind = "int" /\ aux = PyInt(FALSE, NatMag(number))

\* [err, val]
tagify(x, aux) ==
  IF IsTag(aux, CBOR_TAG_DATE_ARRAY) THEN utcfromtimestamp(x)
  ELSE IF IsTag(aux, CBOR_TAG_BIGNUM) THEN _bytes_to_biguint(x)
  ELSE IF IsTag(aux, CBOR_TAG_NEGBIGNUM)
    THEN LET u == _bytes_to_biguint(x)
         IN IF u.err # "" THEN u
            ELSE [err |-> "", val |-> MinusOneMinus(u.val)]
  ELSE IF IsTag(aux, CBOR_TAG_REGEX) THEN re_compile(x)
  ELSE [err |-> "", val |-> x]

\* sys.maxint of a 64-bit build: xrange takes a C long
MaxInt == [i \in 1..16 |-> IF i = 16 THEN 7 ELSE 15]

Hashable(k) == k.kind \notin {"list", "dict"}

\* ob[subk] = subv: the value of an equal key is replaced, the key kept
DictSet(pairs, k, v) ==
  IF \E j \in 1..Len(pairs) : PyEq(pairs[j].k, k)
  THEN [j \in 1..Len(pairs) |->
          IF PyEq(pairs[j].k, k) THEN [k |-> pairs[j].k, v |-> v]
          ELSE pairs[j]]
  ELSE Append(pairs, [k |-> k, v |-> v])

(***************************************************************************)
(* _loads is recursive: an array, a map and a tag call it for their items.  *)
(* The Python call stack is explicit here.  A frame is an activation of     *)
(* _loads suspended in a recursive call; a move is what an activation does  *)
(* next: it calls _loads (and is suspended), returns (object, bytes read),  *)
(* or raises.  An exception unwinds the whole stack: nothing catches it.    *)
(* The interpreter's own recursion limit (1000 frames by default) is far    *)
(* above the nesting of the buffers considered here.                        *)
(***************************************************************************)
Call(offset, depth, returntags) ==
  [op |-> "call", offset |-> offset, depth |-> depth,
   returntags |-> returntags]
Return(val, n) == [op |-> "return", val |-> val, n |-> n]
Raised(e) == [op |-> "raise", err |-> e]
Suspend(frame, call) == [op |-> "suspend", frame |-> frame, call |-> call]

NoKey == [kind |-> "unset"]

\* the locals of an activation that has read an array, map or tag header h
Frame(h, offset, returntags) ==
  [tag |-> h.tag, offset |-> offset, aux |-> h.aux, i |-> 0,
   items |-> <<>>, pairs |-> <<>>, subk |-> NoKey,
   bytes_read |-> h.bytes_read, returntags |-> returntags]

\* the recursive call _loads(data, offset + bytes_read): neither depth nor
\* returntags is passed, so the callee runs with depth=0, returntags=False
_loads_recurse(f) ==
  Suspend(f, Call(AddMag(f.offset, f.bytes_read), 0, FALSE))

\* an activation at the head of its loop (array, map) or at its one call (tag)
_loads_resume(f) ==
  CASE f.tag = CBOR_TAG -> _loads_recurse(f)
    [] MagLess(NatMag(f.i), f.aux.mag) -> _loads_recurse(f)
    [] f.tag = CBOR_ARRAY -> Return(PyList(f.items), f.bytes_read)
    [] OTHER -> Return(PyDict(f.pairs), f.bytes_read)

\* an activation gets (subob, subpos) back from its recursive call
_loads_receive(f, sub) ==
  LET read == AddMag(f.bytes_read, sub.n)
      t == tagify(sub.val, f.aux)
  IN CASE f.tag = CBOR_ARRAY ->
            _loads_resume([f EXCEPT !.bytes_read = read,
                                    !.items = Append(@, sub.val),
                                    !.i = @ + 1])
       [] f.tag = CBOR_MAP /\ f.subk = NoKey ->
            _loads_recurse([f EXCEPT !.bytes_read = read, !.subk = sub.val])
       [] f.tag = CBOR_MAP /\ ~Hashable(f.subk) -> Raised("TypeError")
       [] f.tag = CBOR_MAP ->
            _loads_resume([f EXCEPT !.bytes_read = read,
                                    !.pairs = DictSet(@, f.subk, sub.val),
                                    !.subk = NoKey,
                                    !.i = @ + 1])
       [] f.returntags -> Return(Tag(f.aux, sub.val), read)
       [] t.err # "" -> Raised(t.err)
       [] OTHER -> Return(t.val, read)

\* struct.unpack_from("!f" / "!d", data, offset + 1)
_loads_float(buf, offset, fmt, width) ==
  LET pf == unpack_from(buf, AddMag(offset, <<1>>), width)
  IN IF pf.err # "" THEN Raised(pf.err)
     ELSE Return(PyFloat(fmt, pf.field), NatMag(1 + width))

\* the byte string and text string branches
_loads_string(buf, offset, h) ==
  LET sub == loads_bytes(buf, AddMag(offset, h.bytes_read), h.aux, h.tag)
      text == utf8_decode(sub.val.s)
  IN CASE sub.err # "" -> Raised(sub.err)
       [] h.tag = CBOR_BYTES -> Return(sub.val, AddMag(h.bytes_read, sub.n))
       [] text.err # "" -> Raised(text.err)
       [] OTHER -> Return(PyUnicode(text.u), AddMag(h.bytes_read, sub.n))

\* an activation of _loads from its entry to its first recursive call,
\* its return or its exception
_loads(buf, offset, depth, returntags) ==
  LET tb == ByteAt(buf, offset)
      h == _tag_aux(buf, offset, PyInt(FALSE, NatMag(tb)))
  IN CASE depth > _MAX_DEPTH -> Raised(RecursionLimitError)
       [] ~InRange(buf, offset) -> Raised("IndexError")
       [] tb = CBOR_FLOAT16 ->
            Raised("Exception: don't know how to parse FLOAT16")
       [] tb = CBOR_FLOAT32 -> _loads_float(buf, offset, "f", 4)
       [] tb = CBOR_FLOAT64 -> _loads_float(buf, offset, "d", 8)
       [] h.err # "" -> Raised(h.err)
       [] h.tag = CBOR_UINT -> Return(h.aux, h.bytes_read)
       [] h.tag = CBOR_NEGINT ->
            IF h.aux = PyNone THEN Raised("TypeError")  \* -1 - None
            ELSE Return(MinusOneMinus(h.aux), h.bytes_read)
       [] h.tag \in {CBOR_BYTES, CBOR_TEXT} -> _loads_string(buf, offset, h)
       [] h.tag \in {CBOR_ARRAY, CBOR_MAP} ->
            CASE h.aux = PyNone -> Raised("TypeError")  \* xrange(None)
              [] MagLess(MaxInt, h.aux.mag) -> Raised("OverflowError")
              [] OTHER -> _loads_resume(Frame(h, offset, returntags))
       [] h.tag = CBOR_TAG -> _loads_resume(Frame(h, offset, returntags))
       [] tb = CBOR_TRUE -> Return(PyBool(TRUE), h.bytes_read)
       [] tb = CBOR_FALSE -> Return(PyBool(FALSE), h.bytes_read)
       [] tb = CBOR_NULL -> Return(PyNone, h.bytes_read)
       [] tb = CBOR_UNDEFINED -> Return(PyNone, h.bytes_read)
       [] OTHER -> Raised("Exception: unknown cbor tag 7 byte")

(***************************************************************************)
(* Inputs: the objects handed to dumps and the buffers handed to loads.     *)
(***************************************************************************)
MaxHexDigits == 18
MaxStrLen == 2
MaxListLen == 2
MaxRawLen == 3
MaxChunks == 2

\* 16^k - 1, 16^k and a magnitude of k distinct digits
AllF(k) == [i \in 1..k |-> 15]
Pow16(k) == [i \in 1..(k + 1) |-> IF i = k + 1 THEN 1 ELSE 0]
Mixed(k) == [i \in 1..k |-> (i % 15) + 1]

Magnitudes ==
  {NatMag(n) : n \in {0, 1, 22, 23, 24, 25, 1000}}
    \cup UNION {{AllF(k), Pow16(k), AddMag(Pow16(k), <<1>>), Mixed(k)} :
                  k \in 1..MaxHexDigits}

IntInputs ==
  {PyInt(FALSE, m) : m \in Magnitudes}
    \cup {PyInt(TRUE, m) : m \in Magnitudes \ {<<>>}}

SeqsUpTo(S, n) == UNION {[1..k -> S] : k \in 0..n}

\* lengths at the boundaries of the header width classes
LongLens == {23, 24, 255, 256}

StrInputs ==
  {PyStr(s) : s \in SeqsUpTo({0, 97, 255}, MaxStrLen)}
    \cup {PyStr([i \in 1..n |-> 97]) : n \in LongLens}

UnicodeInputs ==
  {PyUnicode(u) : u \in SeqsUpTo({97, 233, 8364}, MaxStrLen)}
    \cup {PyUnicode([i \in 1..n |-> 97]) : n \in LongLens}

FloatInputs ==
  {PyFloat("d", <<63, 248, 0, 0, 0, 0, 0, 0>>),
   PyFloat("d", <<128, 0, 0, 0, 0, 0, 0, 1>>)}

Scalars ==
  {PyNone, PyBool(TRUE), PyBool(FALSE)} \cup IntInputs \cup StrInputs
    \cup UnicodeInputs \cup FloatInputs

Leaves ==
  {PyNone, PyBool(TRUE), PyInt(FALSE, NatMag(1)), PyInt(TRUE, NatMag(500)),
   PyInt(FALSE, Pow16(16)), PyStr(<<97, 98>>), PyUnicode(<<233>>)}

TagNumbers == {0, 4, 5, 24, 32, 256, 55799}

TagInputs == {Tag(PyInt(FALSE, NatMag(t)), v) : t \in TagNumbers, v \in Leaves}

FlatLists == {PyList(l) : l \in SeqsUpTo(Leaves, MaxListLen)}

NestedLists ==
  {PyList(l) : l \in SeqsUpTo({PyList(<<>>), PyList(<<PyNone>>),
                                 PyList(<<PyStr(<<97>>), PyInt(FALSE, <<>>)>>),
                                 Tag(PyInt(FALSE, NatMag(4)), PyNone)},
                                MaxListLen)}
    \cup {PyList([i \in 1..n |-> PyInt(FALSE, NatMag(i))]) : n \in {23, 24}}

Keys == {PyInt(FALSE, NatMag(1)), PyInt(TRUE, Pow16(16)), PyStr(<<97>>),
         PyUnicode(<<98>>)}
DictValues == {PyNone, PyInt(FALSE, NatMag(2)), PyList(<<PyBool(FALSE)>>)}

DictInputs ==
  {PyDict(d) : d \in {p \in SeqsUpTo([k : Keys, v : DictValues], MaxListLen) :
                        \A i, j \in 1..Len(p) : i # j => ~PyEq(p[i].k, p[j].k)}}

Values ==
  Scalars \cup TagInputs \cup FlatLists \cup NestedLists \cup DictInputs

\* n single-element array headers around the integer 0
NestedArrays(n) == [i \in 1..(n + 1) |-> IF i <= n THEN 129 ELSE 0]

\* definite-length items as they appear inside an indefinite-length string:
\* the bytes, their major type and the payload they carry
Chunk(bytes, major, payload) ==
  [bytes |-> bytes, major |-> major, payload |-> payload]

Chunks ==
  {Chunk(<<64>>, CBOR_BYTES, <<>>), Chunk(<<65, 97>>, CBOR_BYTES, <<97>>),
   Chunk(<<66, 97, 98>>, CBOR_BYTES, <<97, 98>>),
   Chunk(<<96>>, CBOR_TEXT, <<>>), Chunk(<<97, 97>>, CBOR_TEXT, <<97>>),
   Chunk(<<1>>, CBOR_UINT, <<>>)}

RECURSIVE Concat(_)
Concat(ss) == IF ss = <<>> THEN <<>> ELSE Head(ss) \o Concat(Tail(ss))

\* an indefinite-length string: header, chunks, break byte
Indefinite(major, cs) ==
  <<BitOr(major, CBOR_VAR_FOLLOWS)>>
    \o Concat([i \in 1..Len(cs) |-> cs[i].bytes]) \o <<CBOR_BREAK>>

ChunkLists == SeqsUpTo(Chunks, MaxChunks)

IndefiniteStrings ==
  {Indefinite(major, cs) : major \in {CBOR_BYTES, CBOR_TEXT}, cs \in ChunkLists}

\* tag headers: the bytes and the tag number they carry
TagHeader(bytes, number) == [bytes |-> bytes, number |-> number]

RecognizedTagHeaders ==
  {TagHeader(<<192>>, 0), TagHeader(<<193>>, 1), TagHeader(<<194>>, 2),
   TagHeader(<<195>>, 3), TagHeader(<<216, 35>>, 35)}

UnrecognizedTagHeaders ==
  {TagHeader(<<196>>, 4), TagHeader(<<215>>, 23), TagHeader(<<216, 24>>, 24),
   TagHeader(<<216, 36>>, 36), TagHeader(<<217, 217, 247>>, 55799),
   TagHeader(<<218, 0, 1, 0, 0>>, 65536)}

Payloads == Leaves \cup {PyList(<<PyInt(FALSE, <<1>>)>>)}

TaggedItems ==
  {h.bytes \o dumps(v).bytes :
     h \in RecognizedTagHeaders \cup UnrecognizedTagHeaders
            \cup {TagHeader(<<223>>, 0)},
     v \in Payloads}

Literals ==
  {<<161, 1, 2>>, <<194, 66, 1, 0>>, <<162, 1, 2, 1, 3>>,
   <<162, 1, 2, 245, 3>>, <<131, 1, 2, 3>>, <<129, 196, 1>>}

RawBuffers ==
  {<<b>> \o t : b \in 0..255, t \in SeqsUpTo({0, 65, 97, 255}, MaxRawLen - 1)}
    \cup {NestedArrays(n) : n \in (_MAX_DEPTH - 1)..(_MAX_DEPTH + 2)}
    \cup IndefiniteStrings \cup TaggedItems \cup Literals

(***************************************************************************)
(* The state machine: a caller encodes an object and hands the encoding,    *)
(* whole or cut short, to the decoder, or hands the decoder a buffer        *)
(* received from elsewhere.                                                 *)
(***************************************************************************)
Unset == [kind |-> "unset"]
Idle == [op |-> "idle"]

Init ==
  /\ ob = Unset
  /\ enc = Raise("unset")
  /\ data = <<>>
  /\ out = Fail("unset")
  /\ pc = "start"
  /\ stack = <<>>
  /\ cur = Idle
  /\ entry = "none"

\* dumps(v)
CallDumps ==
  /\ pc = "start"
  /\ \E v \in Values : ob' = v /\ enc' = dumps(v)
  /\ pc' = "dumped"
  /\ UNCHANGED <<data, out, stack, cur, entry>>

\* the whole encoding reaches the decoder
Pass ==
  /\ pc = "dumped"
  /\ enc.err = ""
  /\ data' = enc.bytes
  /\ pc' = "ready"
  /\ UNCHANGED <<ob, enc, out, stack, cur, entry>>

\* only the first k bytes of the encoding reach the decoder, k < len
Truncate ==
  /\ pc = "dumped"
  /\ enc.err = ""
  /\ \E k \in 0..(Len(enc.bytes) - 1) : data' = SubSeq(enc.bytes, 1, k)
  /\ pc' = "ready"
  /\ UNCHANGED <<ob, enc, out, stack, cur, entry>>

\* a buffer from elsewhere reaches the decoder
Receive ==
  /\ pc = "start"
  /\ \E b \in RawBuffers : data' = b
  /\ pc' = "ready"
  /\ UNCHANGED <<ob, enc, out, stack, cur, entry>>

\* loads(data): _loads(data) with offset=0, depth=0, returntags=False
loads ==
  /\ pc = "ready"
  /\ cur' = Call(<<>>, 0, FALSE)
  /\ entry' = "loads"
  /\ pc' = "running"
  /\ UNCHANGED <<ob, enc, data, out, stack>>

\* _loads(data, returntags=True), called directly
loads_returntags ==
  /\ pc = "ready"
  /\ cur' = Call(<<>>, 0, TRUE)
  /\ entry' = "_loads"
  /\ pc' = "running"
  /\ UNCHANGED <<ob, enc, data, out, stack>>

\* what a move does to the call stack below it
Apply(m, below) ==
  CASE m.op = "suspend" ->
         /\ stack' = Append(below, m.frame)
         /\ cur' = m.call
         /\ UNCHANGED <<out, pc>>
    [] m.op = "return" /\ below # <<>> ->
         /\ stack' = below
         /\ cur' = m
         /\ UNCHANGED <<out, pc>>
    [] m.op = "return" /\ below = <<>> ->
         /\ stack' = <<>>
         /\ cur' = Idle
         /\ out' = Ret(m.val, m.n)
         /\ pc' = "done"
    [] OTHER ->
         /\ stack' = <<>>
         /\ cur' = Idle
         /\ out' = Fail(m.err)
         /\ pc' = "done"

\* the pending call runs to its first recursive call, return or exception
Enter ==
  /\ pc = "running"
  /\ cur.op = "call"
  /\ Apply(_loads(data, cur.offset, cur.depth, cur.returntags), stack)
  /\ UNCHANGED <<ob, enc, data, entry>>

\* the caller on top of the stack gets the returned (object, bytes read)
Resume ==
  /\ pc = "running"
  /\ cur.op = "return"
  /\ Apply(_loads_receive(stack[Len(stack)], cur),
           SubSeq(stack, 1, Len(stack) - 1))
  /\ UNCHANGED <<ob, enc, data, entry>>

Next ==
  \/ CallDumps
  \/ Pass
  \/ Truncate
  \/ Receive
  \/ loads
  \/ loads_returntags
  \/ Enter
  \/ Resume

Spec == Init /\ [][Next]_vars

(***************************************************************************)
(* Properties.                                                              *)
(***************************************************************************)
Dumped == ob # Unset /\ pc # "start"
Loaded == pc = "done" /\ entry = "loads"
\* the decoder was given the whole encoding of ob
LoadedWhole == Loaded /\ ob # Unset /\ data = enc.bytes
\* the decoder was given a proper prefix of the encoding of ob
LoadedPrefix == pc = "done" /\ ob # Unset /\ Len(data) < Len(enc.bytes)

\* equality of values, the order of a map's pairs set aside
RECURSIVE SameValue(_, _)
SameValue(a, b) ==
  CASE a.kind # b.kind -> FALSE
    [] a.kind = "list" ->
         /\ Len(a.items) = Len(b.items)
         /\ \A i \in 1..Len(a.items) : SameValue(a.items[i], b.items[i])
    [] a.kind = "dict" ->
         /\ Len(a.pairs) = Len(b.pairs)
         /\ \A i \in 1..Len(a.pairs) : \E j \in 1..Len(b.pairs) :
              /\ SameValue(a.pairs[i].k, b.pairs[j].k)
              /\ SameValue(a.pairs[i].v, b.pairs[j].v)
    [] a.kind = "Tag" ->
         SameValue(a.tag, b.tag) /\ SameValue(a.value, b.value)
    [] OTHER -> a = b

\* C1: round trip: every value of the data model (Tagged included) is
\* encoded by dumps, and loads of the encoding returns an equal value.
C1_RoundTrip ==
  /\ Dumped => enc.err = ""
  /\ LoadedWhole => out.err = "" /\ SameValue(out.val, ob)

\* the round trip over the values dumps accepts (not a claim: what is left
\* of C1 once Tagged is set aside)
RoundTripOfEncodable ==
  LoadedWhole => out.err = "" /\ SameValue(out.val, ob)

\* C2: the depth counter is one higher in every recursive call of _loads
\* than in its caller; 101 nested single-element arrays fail in loads with
\* the recursion-limit error and 100 nested ones are decoded.
C2_DepthLimit ==
  /\ pc = "running" /\ cur.op = "call" => cur.depth = Len(stack)
  /\ Loaded /\ data = NestedArrays(_MAX_DEPTH + 1)
       => out.err = RecursionLimitError
  /\ Loaded /\ data = NestedArrays(_MAX_DEPTH) => out.err = ""

\* C3: truncation safety: decoding a proper prefix of a valid encoding ends
\* in an error, never in a value.
C3_TruncationSafety == LoadedPrefix => out.err # ""

\* C4: loads of an item with an unrecognized tag number t around a payload
\* p returns the wrapper Tag(t, p): never an error, never the bare payload.
C4_UnrecognizedTagsPreserved ==
  Loaded =>
    \A h \in UnrecognizedTagHeaders, v \in Payloads :
      data = h.bytes \o dumps(v).bytes =>
        /\ out.err = ""
        /\ out.val.kind = "Tag"
        /\ out.val.tag = PyInt(FALSE, NatMag(h.number))
        /\ SameValue(out.val.value, v)

\* the i-th hexadecimal digit of a magnitude, least significant first
Digit(m, i) == IF i <= Len(m) THEN m[i] ELSE 0

\* bs is the big-endian byte field of magnitude m
IsBigEndianOf(bs, m) ==
  /\ Len(m) <= 2 * Len(bs)
  /\ \A j \in 1..Len(bs) :
       bs[j] = Digit(m, 2 * (Len(bs) - j) + 1)
               + 16 * Digit(m, 2 * (Len(bs) - j) + 2)

\* hd is the one header of major type major for the auxiliary value a, in
\* the smallest width class that holds a
IsMinimalHeader(hd, major, a) ==
  /\ Len(hd) >= 1
  /\ hd[1] \div 32 = major
  /\ LET info == hd[1] % 32
         field == SubSeq(hd, 2, Len(hd))
     IN CASE Len(a) <= 2 /\ MagNat(a) <= 23 ->
               Len(hd) = 1 /\ info = MagNat(a)
          [] Len(a) <= 2 -> Len(hd) = 2 /\ info = 24 /\ IsBigEndianOf(field, a)
          [] Len(a) <= 4 -> Len(hd) = 3 /\ info = 25 /\ IsBigEndianOf(field, a)
          [] Len(a) <= 8 -> Len(hd) = 5 /\ info = 26 /\ IsBigEndianOf(field, a)
          [] Len(a) <= 16 -> Len(hd) = 9 /\ info = 27 /\ IsBigEndianOf(field, a)
          [] OTHER -> FALSE

\* -2^64 <= n <= 2^64 - 1
IsNative(n) ==
  IF n.neg THEN MagLE(n.mag, Pow16(16)) ELSE Len(n.mag) <= 16

\* a is the auxiliary value of the integer n: n, or -1 - n when n < 0
IsAuxOf(a, n) == IF n.neg THEN AddMag(a, <<1>>) = n.mag ELSE a = n.mag

\* the length dumps puts in the header of a string, an array or a map
CountOf(v) ==
  CASE v.kind = "str" -> Len(v.s)
    [] v.kind = "unicode" -> Len(utf8_encode(v.u))
    [] v.kind = "list" -> Len(v.items)
    [] OTHER -> Len(v.pairs)

MajorOf(v) ==
  CASE v.kind = "str" -> 2
    [] v.kind = "unicode" -> 3
    [] v.kind = "list" -> 4
    [] OTHER -> 5

\* the bytes of the header that starts bs
HeaderOf(bs) ==
  LET info == bs[1] % 32
  IN SubSeq(bs, 1, CASE info = 24 -> 2 [] info = 25 -> 3 [] info = 26 -> 5
                     [] info = 27 -> 9 [] OTHER -> 1)

\* C5: minimal-width headers: an integer n in -2^64 .. 2^64-1 is encoded as
\* one header, of major type 0 (n >= 0) or 1 (n < 0), whose auxiliary value
\* (n, or -1 - n) is in the smallest width class that holds it: 1, 2, 3, 5
\* or 9 bytes in all; the length and count headers follow the same rule.
C5_MinimalWidth ==
  Dumped =>
    /\ ob.kind = "int" /\ IsNative(ob) =>
         /\ enc.err = ""
         /\ LET a == IF ob.neg THEN DecMag(ob.mag) ELSE ob.mag
            IN /\ IsAuxOf(a, ob)
               /\ IsMinimalHeader(enc.bytes, IF ob.neg THEN 1 ELSE 0, a)
    /\ ob.kind \in {"str", "unicode", "list", "dict"} /\ enc.err = "" =>
         IsMinimalHeader(HeaderOf(enc.bytes), MajorOf(ob), NatMag(CountOf(ob)))

C5_Witness ==
  /\ pc = "dumped"
  /\ ob = PyInt(TRUE, AddMag(Pow16(8), <<1>>))
  /\ enc.bytes = <<59, 0, 0, 0, 1, 0, 0, 0, 0>>

\* C6: bignums: an integer n >= 2^64 is encoded as the tag-2 header and a
\* definite-length byte string of the big-endian bytes of n without a
\* leading zero byte, an integer n <= -2^64 - 1 as the tag-3 header and
\* such a byte string of -1 - n; loads of the encoding returns n.
C6_Bignum ==
  Dumped /\ ob.kind = "int" /\ ~IsNative(ob) =>
    /\ enc.err = ""
    /\ LET a == IF ob.neg THEN DecMag(ob.mag) ELSE ob.mag
           hd == HeaderOf(Tail(enc.bytes))
           body == SubSeq(enc.bytes, 2 + Len(hd), Len(enc.bytes))
       IN /\ IsAuxOf(a, ob)
          /\ enc.bytes[1] = (IF ob.neg THEN 195 ELSE 194)
          /\ IsMinimalHeader(hd, 2, NatMag(Len(body)))
          /\ IsBigEndianOf(body, a)
          /\ body[1] # 0
    /\ LoadedWhole => out = Ret(ob, NatMag(Len(enc.bytes)))

C6_Witness ==
  /\ LoadedWhole
  /\ ob = PyInt(TRUE, AddMag(Pow16(16), <<1>>))
  /\ enc.bytes = <<195, 73, 1, 0, 0, 0, 0, 0, 0, 0, 0>>
  /\ out.val = ob

\* the payloads of a chunk list, concatenated
Payload(cs) == Concat([i \in 1..Len(cs) |-> cs[i].payload])

\* C7: an indefinite-length byte or text string is decoded to the
\* concatenation of the payloads of its chunks, the bytes read covering
\* header, chunks and break byte; a chunk of another major type is an error.
C7_IndefiniteStrings ==
  Loaded /\ Len(data) >= 1 /\ data[1] \in {95, 127} =>
    \A major \in {CBOR_BYTES, CBOR_TEXT}, cs \in ChunkLists :
      data = Indefinite(major, cs) =>
        IF \A i \in 1..Len(cs) : cs[i].major = major
        THEN out = Ret(IF major = CBOR_BYTES THEN PyStr(Payload(cs))
                       ELSE PyUnicode(Payload(cs)),
                       NatMag(Len(data)))
        ELSE out.err # ""

\* C8: dumps is total over the value model: Tag(t, p) is encoded as the
\* major-type-6 header of t followed by the encoding of p.
C8_EncoderTotal ==
  Dumped =>
    /\ enc.err = ""
    /\ ob.kind = "Tag" =>
         /\ IsMinimalHeader(HeaderOf(enc.bytes), 6, ob.tag.mag)
         /\ SubSeq(enc.bytes, Len(HeaderOf(enc.bytes)) + 1, Len(enc.bytes))
              = dumps(ob.value).bytes

\* C9: the major-type-7 table: 0xF4 is false, 0xF5 true, 0xF6 and 0xF7 null,
\* one byte read each; the 16-bit float marker and every other leading byte
\* of major type 7 but the 32- and 64-bit float markers are errors.
C9_Major7Table ==
  pc = "done" /\ Len(data) >= 1 =>
    /\ data[1] = 244 => out = Ret(PyBool(FALSE), <<1>>)
    /\ data[1] = 245 => out = Ret(PyBool(TRUE), <<1>>)
    /\ data[1] \in {246, 247} => out = Ret(PyNone, <<1>>)
    /\ data[1] = 249 => out.err # ""
    /\ data[1] \in (224..243) \cup {248} \cup (252..255) => out.err # ""

C9_Witness ==
  /\ Loaded
  /\ data = <<247, 255>>
  /\ out = Ret(PyNone, <<1>>)

\* C10: offset accounting: an activation of _loads at offset that returns
\* (value, n) has read n bytes that lie inside the buffer, offset + n <=
\* len(data); loads of a whole encoding reads all of it.
C10_OffsetAccounting ==
  /\ pc = "running" /\ cur.op = "return" =>
       LET caller == stack[Len(stack)]
       IN MagLE(AddMag(AddMag(caller.offset, caller.bytes_read), cur.n),
                NatMag(Len(data)))
  /\ pc = "done" /\ out.err = "" => MagLE(out.n, NatMag(Len(data)))
  /\ LoadedWhole => out.n = NatMag(Len(data))

\* the accounting over whole encodings alone (not a claim: what is left of
\* C10 once buffers that end early are set aside)
WholeEncodingIsRead == LoadedWhole => out.n = NatMag(Len(data))
====
